---- MODULE Spec2Model ----
(***************************************************************************)
(* State-machine model of src/frontend/script.js: the budgeting page's     *)
(* income/tax calculation, the two expense ledgers, the projection and the *)
(* PDF summary.                                                            *)
(*                                                                         *)
(* Numbers.  A JavaScript number is modelled as a record [k, v]:           *)
(*   [k |-> "fin", v |-> n]   the finite value n / Scale                   *)
(*   [k |-> "inf", v |-> 1]   Infinity,   [k |-> "inf", v |-> -1] -Infinity*)
(*   [k |-> "nan", v |-> 0]   NaN                                          *)
(* Finite values are exact rationals with denominator Scale = 2400, which  *)
(* is fine enough for every quantity the modelled inputs produce (pence,   *)
(* tax at 0.45 on half pounds, and division by 12); rounding of IEEE       *)
(* doubles is not modelled.                                                *)
(*                                                                         *)
(* DOM.  A text field is a variable holding its text; a rendered template  *)
(* is a record of the numbers interpolated into it (the arguments of       *)
(* formatCurrency), or <<>> for the "result-empty" message.                *)
(***************************************************************************)
EXTENDS Integers, Sequences, FiniteSets, TLC

VARIABLES
    toggle,                  \* incomeToggle.checked (TRUE: annual mode)
    taxToggle,               \* taxToggle.checked
    hourlyRate,              \* hourlyRateInput.value
    hoursPerWeek,            \* hoursPerWeekInput.value
    annualSalary,            \* annualSalaryInput.value
    currentBalance,          \* currentBalanceInput.value
    selectedProjectionMonths,
    subscriptions,           \* sequence of [id, name, amount]
    annualCosts,             \* sequence of [id, name, amount]
    now,                     \* the reading Date.now() returns
    result,                  \* the result calculateMonthlyIncome last rendered
    resultContainer,         \* resultContainer.innerHTML
    projectionResult,        \* projectionResult.innerHTML
    chartData,               \* the series last handed to updateView
    pdfExport,               \* pdfExportContainer.innerHTML
    taxCall,                 \* last direct call of calculateAnnualTax
    API_URL,                 \* the configured backend URL ("" : frontend only)
    pending                  \* calculateMonthlyIncome calls awaiting their fetch

vars == <<toggle, taxToggle, hourlyRate, hoursPerWeek, annualSalary,
          currentBalance, selectedProjectionMonths, subscriptions,
          annualCosts, now, result, resultContainer, projectionResult,
          chartData, pdfExport, taxCall, API_URL, pending>>

(***************************************************************************)
(* Numbers                                                                 *)
(***************************************************************************)
Scale == 200 * 12

Fin(n) == [k |-> "fin", v |-> n]
Num(n) == Fin(n * Scale)
PosInf == [k |-> "inf", v |-> 1]
NegInf == [k |-> "inf", v |-> -1]
NaN == [k |-> "nan", v |-> 0]
Null == <<>>
Some(x) == <<x>>

\* The value of F at the values of x and y, each evaluated once (TLC evaluates
\* an operator's argument again at every use of the parameter)
With(x, F(_)) == CHOOSE r \in {F(a) : a \in {x}} : TRUE
With2(x, y, F(_, _)) == CHOOSE r \in {F(a, b) : a \in {x}, b \in {y}} : TRUE

IsNaN(x) == x.k = "nan"
IsFin(x) == x.k = "fin"
Sgn(x) == IF x.v > 0 THEN 1 ELSE IF x.v < 0 THEN -1 ELSE 0

\* x < y
Lt(x, y) ==
    With2(x, y, LAMBDA a, b :
        /\ ~IsNaN(a)
        /\ ~IsNaN(b)
        /\ \/ IsFin(a) /\ IsFin(b) /\ a.v < b.v
           \/ a = NegInf /\ b # NegInf
           \/ b = PosInf /\ a # PosInf)
Gt(x, y) == Lt(y, x)
Le(x, y) == With2(x, y, LAMBDA a, b : ~IsNaN(a) /\ ~IsNaN(b) /\ (a = b \/ Lt(a, b)))
Ge(x, y) == Le(y, x)

\* !x for a number x: true for NaN and for 0
Not(x) == With(x, LAMBDA a : IsNaN(a) \/ a = Fin(0))

Neg(x) == With(x, LAMBDA a : IF IsNaN(a) THEN NaN ELSE [k |-> a.k, v |-> -a.v])

Add(x, y) ==
    With2(x, y, LAMBDA a, b :
        IF IsNaN(a) \/ IsNaN(b) THEN NaN
        ELSE IF IsFin(a) /\ IsFin(b) THEN Fin(a.v + b.v)
        ELSE IF IsFin(a) THEN b
        ELSE IF IsFin(b) THEN a
        ELSE IF a = b THEN a ELSE NaN)

Sub(x, y) == Add(x, Neg(y))

\* x * y; the finite product a.v * b.v / Scale is taken through whichever
\* factor is a whole number, which keeps the intermediate value small
Mul(x, y) ==
    With2(x, y, LAMBDA a, b :
        IF IsNaN(a) \/ IsNaN(b) THEN NaN
        ELSE IF IsFin(a) /\ IsFin(b) THEN
            IF a.v % Scale = 0 THEN Fin((a.v \div Scale) * b.v)
            ELSE IF b.v % Scale = 0 THEN Fin(a.v * (b.v \div Scale))
            ELSE Fin((a.v * b.v) \div Scale)
        ELSE IF Sgn(a) * Sgn(b) = 0 THEN NaN
        ELSE IF Sgn(a) * Sgn(b) > 0 THEN PosInf ELSE NegInf)

\* x * (num / den) for a decimal constant num / den > 0
Times(x, num, den) ==
    With(x, LAMBDA a :
        IF IsFin(a) THEN Fin((a.v \div den) * num + ((a.v % den) * num) \div den)
        ELSE a)

\* x / n for a whole number n > 0
Div(x, n) == With(x, LAMBDA a : IF IsFin(a) THEN Fin(a.v \div n) ELSE a)

\* Math.max, Math.min
MathMax(x, y) ==
    With2(x, y, LAMBDA a, b :
        IF IsNaN(a) \/ IsNaN(b) THEN NaN ELSE IF Lt(a, b) THEN b ELSE a)
MathMin(x, y) ==
    With2(x, y, LAMBDA a, b :
        IF IsNaN(a) \/ IsNaN(b) THEN NaN ELSE IF Lt(b, a) THEN b ELSE a)

(***************************************************************************)
(* Text: parseFloat and String.prototype.trim                              *)
(***************************************************************************)
\* parseFloat on the texts the model types into number fields
parseFloat(s) ==
    CASE s = "" -> NaN
      [] s = "abc" -> NaN
      [] s = "Infinity" -> PosInf
      [] s = "0" -> Num(0)
      [] s = "-5" -> Num(-5)
      [] s = "-50" -> Num(-50)
      [] s = "9.99" -> Fin((999 * Scale) \div 100)
      [] s = "15" -> Num(15)
      [] s = "15.00" -> Num(15)
      [] s = "20" -> Num(20)
      [] s = "35" -> Num(35)
      [] s = "600" -> Num(600)
      [] s = "1000" -> Num(1000)
      [] s = "12570" -> Num(12570)
      [] s = "30000" -> Num(30000)
      [] s = "150000" -> Num(150000)

\* A name is a sequence of one-character strings
IsSpace(c) == c = " "

RECURSIVE trimStart(_)
trimStart(s) ==
    IF s # <<>> /\ IsSpace(Head(s)) THEN trimStart(Tail(s)) ELSE s

RECURSIVE trimEnd(_)
trimEnd(s) ==
    IF s # <<>> /\ IsSpace(s[Len(s)]) THEN trimEnd(SubSeq(s, 1, Len(s) - 1)) ELSE s

trim(s) == trimEnd(trimStart(s))

(***************************************************************************)
(* Tax model                                                               *)
(***************************************************************************)
personalAllowance == Num(12570)
allowanceTaperStart == Num(100000)
basicRateLimit == Num(37700)
higherRateLimit == Num(125140)
niPrimaryThreshold == Num(12570)
niUpperEarningsLimit == Num(50270)

\* the allowance left untapered (a slip the tax claims must notice)
adjustedAllowanceUntapered(annualIncome) == personalAllowance

adjustedAllowance(annualIncome) ==
    LET allowanceReduction ==
            Div(MathMax(Num(0), Sub(annualIncome, allowanceTaperStart)), 2)
    IN  MathMax(Num(0), Sub(personalAllowance, allowanceReduction))

taxableIncome(annualIncome) ==
    MathMax(Num(0), Sub(annualIncome, adjustedAllowance(annualIncome)))

basicTaxable(taxable) == MathMin(taxable, basicRateLimit)

\* the higher band without its floor at 0 (a slip the tax claims must notice)
higherTaxableUnfloored(taxable) ==
    MathMin(Sub(taxable, basicRateLimit), Sub(higherRateLimit, basicRateLimit))

higherTaxable(taxable) ==
    MathMin(MathMax(Sub(taxable, basicRateLimit), Num(0)),
            Sub(higherRateLimit, basicRateLimit))

additionalTaxable(taxable) == MathMax(Sub(taxable, higherRateLimit), Num(0))

incomeTax(annualIncome) ==
    With(taxableIncome(annualIncome), LAMBDA taxable :
        Add(Add(Times(basicTaxable(taxable), 20, 100),
                Times(higherTaxable(taxable), 40, 100)),
            Times(additionalTaxable(taxable), 45, 100)))

nationalInsurance(annualIncome) ==
    IF Gt(annualIncome, niPrimaryThreshold)
    THEN LET mainBand ==
                 Sub(MathMin(annualIncome, niUpperEarningsLimit), niPrimaryThreshold)
             upperBand == MathMax(Sub(annualIncome, niUpperEarningsLimit), Num(0))
         IN  Add(Times(mainBand, 8, 100), Times(upperBand, 2, 100))
    ELSE Num(0)

calculateAnnualTax(annualIncome) ==
    With(annualIncome, LAMBDA income :
        Add(incomeTax(income), nationalInsurance(income)))

(***************************************************************************)
(* Income resolver and calculator                                          *)
(***************************************************************************)
\* getAnnualIncome falling through to the hourly fields when the annual salary
\* is not above 0 (a slip the absence claim must notice)
getAnnualIncomeFallThrough ==
    LET annual == parseFloat(annualSalary)
        rate == parseFloat(hourlyRate)
        hours == parseFloat(hoursPerWeek)
    IN  IF toggle /\ Gt(annual, Num(0)) THEN Some(annual)
        ELSE IF Gt(rate, Num(0)) /\ Gt(hours, Num(0))
             THEN Some(Mul(Mul(rate, hours), Num(52)))
             ELSE Null

\* null, or Some(annual income)
getAnnualIncome ==
    LET isAnnual == toggle
        annual == parseFloat(annualSalary)
        rate == parseFloat(hourlyRate)
        hours == parseFloat(hoursPerWeek)
    IN  IF isAnnual
        THEN IF Gt(annual, Num(0)) THEN Some(annual) ELSE Null
        ELSE IF Gt(rate, Num(0)) /\ Gt(hours, Num(0))
             THEN Some(Mul(Mul(rate, hours), Num(52)))
             ELSE Null

\* calculateLocally keeping the annual tax as the monthly tax (a slip the
\* result claim must notice)
calculateLocallyAnnualTax ==
    With(getAnnualIncome, LAMBDA got :
        IF got = Null \/ Not(got[1]) THEN Null
        ELSE LET annualIncome == got[1]
                 grossMonthly == Div(annualIncome, 12)
                 monthlyTax ==
                     IF taxToggle THEN calculateAnnualTax(annualIncome) ELSE Num(0)
             IN  Some([grossAnnual |-> annualIncome,
                       grossMonthly |-> grossMonthly,
                       monthlyTax |-> monthlyTax,
                       netMonthly |-> Sub(grossMonthly, monthlyTax),
                       taxEnabled |-> taxToggle]))

\* null, or Some(CalculationResult)
calculateLocally ==
    With(getAnnualIncome, LAMBDA got :
        IF got = Null \/ Not(got[1]) THEN Null
        ELSE LET annualIncome == got[1]
                 grossMonthly == Div(annualIncome, 12)
                 monthlyTax ==
                     IF taxToggle THEN Div(calculateAnnualTax(annualIncome), 12)
                     ELSE Num(0)
             IN  Some([grossAnnual |-> annualIncome,
                       grossMonthly |-> grossMonthly,
                       monthlyTax |-> monthlyTax,
                       netMonthly |-> Sub(grossMonthly, monthlyTax),
                       taxEnabled |-> taxToggle]))

(***************************************************************************)
(* Ledger totals                                                           *)
(***************************************************************************)
\* entries.reduce((sum, e) => sum + e.amount, sum)
RECURSIVE reduceAmounts(_, _)
reduceAmounts(entries, sum) ==
    With2(entries, sum, LAMBDA rest, acc :
        IF rest = <<>> THEN acc
        ELSE reduceAmounts(Tail(rest), Add(acc, Head(rest).amount)))

getSubscriptionsTotal == reduceAmounts(subscriptions, Num(0))

getAnnualCostsAnnualTotal == reduceAmounts(annualCosts, Num(0))

getAnnualCostsMonthlyTotal == Div(getAnnualCostsAnnualTotal, 12)

(***************************************************************************)
(* Projection                                                              *)
(***************************************************************************)
getCurrentBalance ==
    LET value == parseFloat(currentBalance)
    IN  IF Not(value) \/ Lt(value, Num(0)) THEN Num(0) ELSE value

getDisposableMonthly(r) ==
    IF r = Null THEN Num(0)
    ELSE Sub(Sub(r[1].netMonthly, getSubscriptionsTotal), getAnnualCostsMonthlyTotal)

\* the loop of buildProjectionSeries, from counter i with the points pushed so far
RECURSIVE seriesLoop(_, _, _, _, _)
seriesLoop(startBalance, monthlyDelta, months, i0, series0) ==
    With2(i0, series0, LAMBDA i, series :
        IF i <= months
        THEN seriesLoop(startBalance, monthlyDelta, months, i + 1,
                        Append(series,
                               [month |-> i,
                                balance |-> Add(startBalance, Mul(monthlyDelta, Num(i)))]))
        ELSE series)

\* the loop run with i < months (a slip the series claim must notice)
buildProjectionSeriesExclusive(startBalance, monthlyDelta, months) ==
    With2(startBalance, monthlyDelta, LAMBDA start, delta :
        seriesLoop(start, delta, months - 1, 0, <<>>))

buildProjectionSeries(startBalance, monthlyDelta, months) ==
    With2(startBalance, monthlyDelta, LAMBDA start, delta :
        seriesLoop(start, delta, months, 0, <<>>))

(***************************************************************************)
(* Rendering                                                               *)
(***************************************************************************)
\* resultContainer.innerHTML after renderResult(r)
renderResult(r) ==
    IF r # Null /\ Gt(r[1].grossMonthly, Num(0))
    THEN LET subscriptionsCost == getSubscriptionsTotal
             annualMonthlyEquivalent == getAnnualCostsMonthlyTotal
         IN  Some([grossMonthly |-> r[1].grossMonthly,
                   taxLabel |-> IF r[1].taxEnabled THEN "Estimated monthly tax"
                                ELSE "Estimated monthly tax (off)",
                   monthlyTax |-> r[1].monthlyTax,
                   netMonthly |-> r[1].netMonthly,
                   subscriptionsCost |-> subscriptionsCost,
                   annualMonthlyEquivalent |-> annualMonthlyEquivalent,
                   annualTotal |-> getAnnualCostsAnnualTotal,
                   disposable |-> Sub(Sub(r[1].netMonthly, subscriptionsCost),
                                      annualMonthlyEquivalent)])
    ELSE Null

\* <<projectionResult.innerHTML, the data handed to updateChart>> after
\* renderProjection(r)
renderProjection(r) ==
    With2(getDisposableMonthly(r), getCurrentBalance, LAMBDA disposable, balance :
        IF r = Null \/ Le(r[1].grossMonthly, Num(0))
        THEN <<Null, <<>>>>
        ELSE <<Some([months |-> selectedProjectionMonths,
                     projected |-> Add(balance,
                                       Mul(disposable, Num(selectedProjectionMonths)))]),
               buildProjectionSeries(balance, disposable, selectedProjectionMonths)>>)

\* the display after renderResult(r) and renderProjection(r), r being the
\* result the call ends with
rendered(r) ==
    /\ result' = r
    /\ resultContainer' = renderResult(result)'
    /\ projectionResult' = renderProjection(result)'[1]
    /\ chartData' = renderProjection(result)'[2]

(***************************************************************************)
(* Remote calculation path                                                 *)
(***************************************************************************)
MaxInFlight == 2    \* calls of calculateMonthlyIncome awaiting a response

\* calculateViaAPI up to its fetch: null (it returns null without a request),
\* or Some(body of the request)
calculateViaAPIBody ==
    LET isAnnual == toggle
        annual == parseFloat(annualSalary)
        rate == parseFloat(hourlyRate)
        hours == parseFloat(hoursPerWeek)
    IN  IF isAnnual
        THEN IF Not(annual) \/ Le(annual, Num(0)) THEN Null
             ELSE Some([income_type |-> "annual", annual_salary |-> annual,
                        tax_enabled |-> taxToggle])
        ELSE IF Not(rate) \/ Not(hours) \/ Le(rate, Num(0)) \/ Le(hours, Num(0))
             THEN Null
             ELSE Some([income_type |-> "hourly", hourly_rate |-> rate,
                        hours_per_week |-> hours, tax_enabled |-> taxToggle])

\* the JSON the backend answers to POST /calculate-income.  The backend is
\* not part of src/frontend; it is taken as the mirror of the local
\* computation that its request/response shape describes.
calculateIncomeResponse(body) ==
    With(IF body.income_type = "annual" THEN body.annual_salary
         ELSE Mul(Mul(body.hourly_rate, body.hours_per_week), Num(52)),
         LAMBDA annualIncome :
        LET grossMonthly == Div(annualIncome, 12)
            monthlyTax == IF body.tax_enabled
                          THEN Div(calculateAnnualTax(annualIncome), 12)
                          ELSE Num(0)
        IN  [gross_annual_income |-> annualIncome,
             gross_monthly_income |-> grossMonthly,
             estimated_monthly_tax |-> monthlyTax,
             net_monthly_income |-> Sub(grossMonthly, monthlyTax),
             tax_enabled |-> body.tax_enabled])

\* calculateViaAPI from the settled fetch on: ok is FALSE for a network error
\* or a response that is not ok
calculateViaAPIResult(body, ok) ==
    IF ~ok THEN Null
    ELSE With(calculateIncomeResponse(body), LAMBDA data :
             IF Not(data.gross_monthly_income) THEN Null
             ELSE Some([grossAnnual |-> data.gross_annual_income,
                        grossMonthly |-> data.gross_monthly_income,
                        monthlyTax |-> data.estimated_monthly_tax,
                        netMonthly |-> data.net_monthly_income,
                        taxEnabled |-> data.tax_enabled]))

\* calculateMonthlyIncome, called last by a handler: it reads the state the
\* handler leaves behind.  With API_URL = "", or when calculateViaAPI returns
\* null without a request, the local result is rendered before the next
\* event; otherwise the call is suspended at its await with the local result
\* it has computed.
calculateMonthlyIncome ==
    /\ UNCHANGED API_URL
    /\ IF API_URL = "" \/ calculateViaAPIBody' = Null
       THEN /\ rendered(calculateLocally')
            /\ UNCHANGED pending
       ELSE /\ Len(pending) < MaxInFlight
            /\ pending' = Append(pending, [localResult |-> calculateLocally',
                                           body |-> calculateViaAPIBody'[1]])
            /\ UNCHANGED <<result, resultContainer, projectionResult, chartData>>

\* the fetch of the i-th suspended call settles and the call runs to its end
fetchSettled(i, ok) ==
    /\ i \in 1..Len(pending)
    /\ pending' = SubSeq(pending, 1, i - 1) \o SubSeq(pending, i + 1, Len(pending))
    /\ UNCHANGED <<toggle, taxToggle, hourlyRate, hoursPerWeek, annualSalary,
                   currentBalance, selectedProjectionMonths, subscriptions,
                   annualCosts, now, pdfExport, taxCall, API_URL>>
    /\ LET localResult == pending[i].localResult
           apiResult == calculateViaAPIResult(pending[i].body, ok)
       IN  rendered(IF apiResult # Null THEN apiResult ELSE localResult)

\* pdfExportContainer.innerHTML written by exportToPdf
pdfSummary ==
    With(calculateLocally, LAMBDA r :
    LET subscriptionsCost == getSubscriptionsTotal
        annualMonthlyEquivalent == getAnnualCostsMonthlyTotal
        totalExpenses == Add(subscriptionsCost, annualMonthlyEquivalent)
        disposable == getDisposableMonthly(r)
        balance == getCurrentBalance
    IN  [netMonthly |-> IF r # Null THEN r[1].netMonthly ELSE Num(0),
         grossMonthly |-> IF r # Null THEN r[1].grossMonthly ELSE Num(0),
         monthlyTax |-> IF r # Null THEN r[1].monthlyTax ELSE Num(0),
         totalExpenses |-> totalExpenses,
         disposable |-> disposable,
         currentBalance |-> balance,
         months |-> selectedProjectionMonths,
         projectedBalance |-> Add(balance, Mul(disposable, Num(selectedProjectionMonths)))])

(***************************************************************************)
(* Bounds and input sets                                                   *)
(***************************************************************************)
MaxClock == 1          \* Date.now() takes the readings 0..MaxClock
MaxEntries == 2        \* entries in the two ledgers together
MaxHorizon == 3        \* the projection pills offer 0..MaxHorizon months
IncomeStep == 2500     \* grid of the incomes calculateAnnualTax is called on
MaxIncomeSteps == 64

NameTexts == {<<>>, <<" ", " ">>, <<" ", "G", " ">>, <<"T", "V">>}
AmountTexts == {"", "abc", "0", "-5", "9.99", "15", "Infinity"}
RateTexts == {"", "0", "20"}
HoursTexts == {"", "-5", "35"}
SalaryTexts == {"", "-5", "30000", "150000"}
BalanceTexts == {"", "-50", "1000"}
Horizons == 0..MaxHorizon
Ids == {ToString(t) : t \in 0..MaxClock}

\* band edges of the schedule and the incomes of the worked examples
TaxEdges == {0, 12570, 30000, 50270, 100000, 125140, 150000}
TaxIncomes ==
    ({k * IncomeStep : k \in 0..MaxIncomeSteps}
        \cup {e + d : e \in TaxEdges, d \in {-1, 0, 1}}) \ {-1}

(***************************************************************************)
(* Ledger handlers                                                         *)
(***************************************************************************)
\* entries.findIndex(e => e.id === id)
findIndex(entries, id) ==
    IF \E i \in 1..Len(entries) : entries[i].id = id
    THEN (CHOOSE i \in 1..Len(entries) :
              /\ entries[i].id = id
              /\ \A j \in 1..(i - 1) : entries[j].id # id) - 1
    ELSE -1

\* entries.splice(index, 1), index counted from 0
splice(entries, index) ==
    SubSeq(entries, 1, index) \o SubSeq(entries, index + 2, Len(entries))

\* the entry addSubscription / addAnnualCost pushes
newEntry(name, amount) ==
    [id |-> ToString(now), name |-> name, amount |-> amount]

\* the validation of addSubscription / addAnnualCost: TRUE when the add returns early
rejected(name, amount) ==
    name = <<>> \/ Not(amount) \/ Le(amount, Num(0))

\* addSubscription with unshift in place of push (a slip the append claim
\* must notice)
addSubscriptionUnshift(nameText, amountText) ==
    LET name == trim(nameText)
        amount == parseFloat(amountText)
    IN  /\ Len(subscriptions) + Len(annualCosts) < MaxEntries
        /\ IF rejected(name, amount)
           THEN UNCHANGED vars
           ELSE /\ subscriptions' = <<newEntry(name, amount)>> \o subscriptions
                /\ UNCHANGED <<toggle, taxToggle, hourlyRate, hoursPerWeek,
                               annualSalary, currentBalance,
                               selectedProjectionMonths, annualCosts, now,
                               pdfExport, taxCall>>
                /\ calculateMonthlyIncome

addSubscription(nameText, amountText) ==
    LET name == trim(nameText)
        amount == parseFloat(amountText)
    IN  /\ Len(subscriptions) + Len(annualCosts) < MaxEntries
        /\ IF rejected(name, amount)
           THEN UNCHANGED vars
           ELSE /\ subscriptions' = Append(subscriptions, newEntry(name, amount))
                /\ UNCHANGED <<toggle, taxToggle, hourlyRate, hoursPerWeek,
                               annualSalary, currentBalance,
                               selectedProjectionMonths, annualCosts, now,
                               pdfExport, taxCall>>
                /\ calculateMonthlyIncome

addAnnualCost(nameText, amountText) ==
    LET name == trim(nameText)
        amount == parseFloat(amountText)
    IN  /\ Len(subscriptions) + Len(annualCosts) < MaxEntries
        /\ IF rejected(name, amount)
           THEN UNCHANGED vars
           ELSE /\ annualCosts' = Append(annualCosts, newEntry(name, amount))
                /\ UNCHANGED <<toggle, taxToggle, hourlyRate, hoursPerWeek,
                               annualSalary, currentBalance,
                               selectedProjectionMonths, subscriptions, now,
                               pdfExport, taxCall>>
                /\ calculateMonthlyIncome

\* removeSubscription without its closing calculateMonthlyIncome (a slip the
\* recomputation claim must notice)
removeSubscriptionStale(id) ==
    LET index == findIndex(subscriptions, id)
    IN  IF index = -1
        THEN UNCHANGED vars
        ELSE /\ subscriptions' = splice(subscriptions, index)
             /\ UNCHANGED <<toggle, taxToggle, hourlyRate, hoursPerWeek,
                            annualSalary, currentBalance,
                            selectedProjectionMonths, annualCosts, now,
                            pdfExport, taxCall, result, resultContainer,
                            projectionResult, chartData, API_URL, pending>>

removeSubscription(id) ==
    LET index == findIndex(subscriptions, id)
    IN  IF index = -1
        THEN UNCHANGED vars
        ELSE /\ subscriptions' = splice(subscriptions, index)
             /\ UNCHANGED <<toggle, taxToggle, hourlyRate, hoursPerWeek,
                            annualSalary, currentBalance,
                            selectedProjectionMonths, annualCosts, now,
                            pdfExport, taxCall>>
             /\ calculateMonthlyIncome

removeAnnualCost(id) ==
    LET index == findIndex(annualCosts, id)
    IN  IF index = -1
        THEN UNCHANGED vars
        ELSE /\ annualCosts' = splice(annualCosts, index)
             /\ UNCHANGED <<toggle, taxToggle, hourlyRate, hoursPerWeek,
                            annualSalary, currentBalance,
                            selectedProjectionMonths, subscriptions, now,
                            pdfExport, taxCall>>
             /\ calculateMonthlyIncome

\* the clock Date.now() reads moves on between two events
Tick ==
    /\ now < MaxClock
    /\ now' = now + 1
    /\ UNCHANGED <<toggle, taxToggle, hourlyRate, hoursPerWeek, annualSalary,
                   currentBalance, selectedProjectionMonths, subscriptions,
                   annualCosts, result, resultContainer, projectionResult,
                   chartData, pdfExport, taxCall, API_URL, pending>>

(***************************************************************************)
(* Income, balance and horizon handlers                                    *)
(***************************************************************************)
\* "change" on incomeToggle
updateView ==
    /\ toggle' = ~toggle
    /\ UNCHANGED <<taxToggle, hourlyRate, hoursPerWeek, annualSalary,
                   currentBalance, selectedProjectionMonths, subscriptions,
                   annualCosts, now, pdfExport, taxCall>>
    /\ calculateMonthlyIncome

\* "change" on taxToggle
taxToggleChange ==
    /\ taxToggle' = ~taxToggle
    /\ UNCHANGED <<toggle, hourlyRate, hoursPerWeek, annualSalary,
                   currentBalance, selectedProjectionMonths, subscriptions,
                   annualCosts, now, pdfExport, taxCall>>
    /\ calculateMonthlyIncome

\* "input" on hourlyRateInput
hourlyRateInput(text) ==
    /\ hourlyRate' = text
    /\ UNCHANGED <<toggle, taxToggle, hoursPerWeek, annualSalary,
                   currentBalance, selectedProjectionMonths, subscriptions,
                   annualCosts, now, pdfExport, taxCall>>
    /\ calculateMonthlyIncome

\* "input" on hoursPerWeekInput
hoursPerWeekInput(text) ==
    /\ hoursPerWeek' = text
    /\ UNCHANGED <<toggle, taxToggle, hourlyRate, annualSalary,
                   currentBalance, selectedProjectionMonths, subscriptions,
                   annualCosts, now, pdfExport, taxCall>>
    /\ calculateMonthlyIncome

\* "input" on annualSalaryInput
annualSalaryInput(text) ==
    /\ annualSalary' = text
    /\ UNCHANGED <<toggle, taxToggle, hourlyRate, hoursPerWeek,
                   currentBalance, selectedProjectionMonths, subscriptions,
                   annualCosts, now, pdfExport, taxCall>>
    /\ calculateMonthlyIncome

\* "input" on currentBalanceInput
currentBalanceInput(text) ==
    /\ currentBalance' = text
    /\ UNCHANGED <<toggle, taxToggle, hourlyRate, hoursPerWeek, annualSalary,
                   selectedProjectionMonths, subscriptions, annualCosts, now,
                   pdfExport, taxCall>>
    /\ calculateMonthlyIncome

\* click on the pill whose data-months is months
handleProjectionClick(months) ==
    /\ selectedProjectionMonths' = months
    /\ UNCHANGED <<toggle, taxToggle, hourlyRate, hoursPerWeek, annualSalary,
                   currentBalance, subscriptions, annualCosts, now, pdfExport,
                   taxCall>>
    /\ calculateMonthlyIncome

(***************************************************************************)
(* PDF export                                                              *)
(***************************************************************************)
exportToPdf ==
    /\ pdfExport' = Some(pdfSummary)
    /\ UNCHANGED <<toggle, taxToggle, hourlyRate, hoursPerWeek, annualSalary,
                   currentBalance, selectedProjectionMonths, subscriptions,
                   annualCosts, now, result, resultContainer, projectionResult,
                   chartData, taxCall, API_URL, pending>>

\* the callback of html2pdf()...save().then
pdfSaved ==
    /\ pdfExport # Null
    /\ pdfExport' = Null
    /\ UNCHANGED <<toggle, taxToggle, hourlyRate, hoursPerWeek, annualSalary,
                   currentBalance, selectedProjectionMonths, subscriptions,
                   annualCosts, now, result, resultContainer, projectionResult,
                   chartData, taxCall, API_URL, pending>>

(***************************************************************************)
(* A direct call of the pure tax function                                  *)
(***************************************************************************)
callAnnualTax(income) ==
    /\ taxCall' = Some([income |-> Num(income), tax |-> calculateAnnualTax(Num(income))])
    /\ UNCHANGED <<toggle, taxToggle, hourlyRate, hoursPerWeek, annualSalary,
                   currentBalance, selectedProjectionMonths, subscriptions,
                   annualCosts, now, result, resultContainer, projectionResult,
                   chartData, pdfExport, API_URL, pending>>

(***************************************************************************)
(* Initial states and specifications                                       *)
(***************************************************************************)
\* the page with the given field contents and ledgers, rendered
Loaded(tg, tx, hr, hw, as, cb, months, subs, costs, clock) ==
    /\ toggle = tg
    /\ taxToggle = tx
    /\ hourlyRate = hr
    /\ hoursPerWeek = hw
    /\ annualSalary = as
    /\ currentBalance = cb
    /\ selectedProjectionMonths = months
    /\ subscriptions = subs
    /\ annualCosts = costs
    /\ now = clock
    /\ result = calculateLocally
    /\ resultContainer = renderResult(result)
    /\ projectionResult = renderProjection(result)[1]
    /\ chartData = renderProjection(result)[2]
    /\ pdfExport = Null
    /\ taxCall = Null
    /\ pending = <<>>

\* after DOMContentLoaded: empty fields and ledgers, the default horizon
Init ==
    \E tg \in BOOLEAN, tx \in BOOLEAN :
        /\ Loaded(tg, tx, "", "", "", "", 3, <<>>, <<>>, 0)
        /\ API_URL = ""

LedgerStep ==
    \/ \E n \in NameTexts, a \in AmountTexts : addSubscription(n, a)
    \/ \E n \in NameTexts, a \in AmountTexts : addAnnualCost(n, a)
    \/ \E id \in Ids : removeSubscription(id)
    \/ \E id \in Ids : removeAnnualCost(id)
    \/ Tick

InputStep ==
    \/ updateView
    \/ taxToggleChange
    \/ \E t \in RateTexts : hourlyRateInput(t)
    \/ \E t \in HoursTexts : hoursPerWeekInput(t)
    \/ \E t \in SalaryTexts : annualSalaryInput(t)
    \/ \E t \in BalanceTexts : currentBalanceInput(t)
    \/ \E m \in Horizons : handleProjectionClick(m)

Next ==
    \/ LedgerStep
    \/ InputStep
    \/ exportToPdf
    \/ pdfSaved

Spec == Init /\ [][Next]_vars

\* the ledgers, with the income entered beforehand (hourly 20 x 35, no annual
\* salary: present in hourly mode, absent in annual mode)
InitLedger ==
    \E tg \in BOOLEAN :
        /\ Loaded(tg, TRUE, "20", "35", "", "1000", 3, <<>>, <<>>, 0)
        /\ API_URL = ""

SpecLedger == InitLedger /\ [][LedgerStep]_vars

(***************************************************************************)
(* Ledger claims, under SpecLedger                                         *)
(***************************************************************************)
NoDuplicateId(entries) ==
    \A i, j \in 1..Len(entries) : i # j => entries[i].id # entries[j].id

\* C1: in every reachable state no two entries of the same ledger have the
\* same id, also when two adds to that ledger happen at one clock reading.
C1_UniqueIds == NoDuplicateId(subscriptions) /\ NoDuplicateId(annualCosts)

\* the entries of a ledger without those holding id, in their order
Without(entries, id) == SelectSeq(entries, LAMBDA e : e.id # id)

\* C2: remove(id) deletes the entry of that ledger that was given id and
\* leaves every other entry, in order, and the other ledger; when no entry
\* holds id the ledger is unchanged.
C2_RemoveDeletesTheEntry ==
    [][\A id \in Ids :
          /\ removeSubscription(id) =>
                 /\ subscriptions' = Without(subscriptions, id)
                 /\ annualCosts' = annualCosts
          /\ removeAnnualCost(id) =>
                 /\ annualCosts' = Without(annualCosts, id)
                 /\ subscriptions' = subscriptions]_vars

\* the claim's words: a name that is empty after trimming white space
Blank(nameText) == \A i \in 1..Len(nameText) : nameText[i] = " "

\* the claim's words: an amount that is a positive finite number
PositiveFinite(amountText) ==
    IsFin(parseFloat(amountText)) /\ parseFloat(amountText).v > 0

\* C3: an add with a blank name, or with an amount that is not a positive
\* finite number (zero, negative, not a number, infinite), changes neither
\* ledger.
C3_InvalidAddIsNoOp ==
    [][\A n \in NameTexts, a \in AmountTexts :
          ((Blank(n) \/ ~PositiveFinite(a))
              /\ (addSubscription(n, a) \/ addAnnualCost(n, a)))
          => UNCHANGED <<subscriptions, annualCosts>>]_vars

\* the claim's words: a positive amount
Positive(amountText) == Gt(parseFloat(amountText), Num(0))

\* the name text without the spaces around it
Stripped(nameText) ==
    LET inner == {i \in 1..Len(nameText) : nameText[i] # " "}
        first == CHOOSE i \in inner : \A j \in inner : i <= j
        last == CHOOSE i \in inner : \A j \in inner : j <= i
    IN  IF inner = {} THEN <<>> ELSE [k \in 1..(last - first + 1) |-> nameText[first + k - 1]]

\* entries' is entries with one entry of that name and amount appended
Appended(old, new, nameText, amountText) ==
    /\ Len(new) = Len(old) + 1
    /\ \A i \in 1..Len(old) : new[i] = old[i]
    /\ new[Len(new)].name = Stripped(nameText)
    /\ new[Len(new)].amount = parseFloat(amountText)

\* C4: an accepted add appends one entry with that name and amount at the end
\* of its ledger, changes neither the earlier entries nor the other ledger and
\* raises the ledger's total by the amount; an empty ledger totals 0 and the
\* monthly equivalent of the annual costs is their total / 12.
C4_AddAppends ==
    [][/\ \A n \in NameTexts, a \in AmountTexts :
            (~Blank(n) /\ Positive(a)) =>
                /\ addSubscription(n, a) =>
                       /\ Appended(subscriptions, subscriptions', n, a)
                       /\ annualCosts' = annualCosts
                       /\ getSubscriptionsTotal' =
                              Add(getSubscriptionsTotal, parseFloat(a))
                /\ addAnnualCost(n, a) =>
                       /\ Appended(annualCosts, annualCosts', n, a)
                       /\ subscriptions' = subscriptions
                       /\ getAnnualCostsAnnualTotal' =
                              Add(getAnnualCostsAnnualTotal, parseFloat(a))
       /\ subscriptions' = <<>> => getSubscriptionsTotal' = Num(0)
       /\ annualCosts' = <<>> => getAnnualCostsAnnualTotal' = Num(0)
       /\ IsFin(getAnnualCostsAnnualTotal') =>
              getAnnualCostsMonthlyTotal'.v * 12 = getAnnualCostsAnnualTotal'.v
       /\ ~IsFin(getAnnualCostsAnnualTotal') =>
              getAnnualCostsMonthlyTotal' = getAnnualCostsAnnualTotal']_vars

\* two subscriptions of 9.99 and 15 added (total 24.99), the second with a
\* name typed with spaces around it
C4_Witness ==
    /\ Len(subscriptions) = 2
    /\ subscriptions[1].amount = parseFloat("9.99")
    /\ subscriptions[2].amount = Num(15)
    /\ subscriptions[2].name = <<"G">>
    /\ getSubscriptionsTotal = Fin(2499 * 24)

(***************************************************************************)
(* Tax claims, under SpecTax: calculateAnnualTax called on TaxIncomes       *)
(***************************************************************************)
NextTax == \E income \in TaxIncomes : callAnnualTax(income)

SpecTax == Init /\ [][NextTax]_vars

Max(a, b) == IF a < b THEN b ELSE a
Min(a, b) == IF a < b THEN a ELSE b

\* The stated schedule on a whole number of pounds, in 1/200 of a pound:
\* amounts of income are counted in half pounds and each rate in percent.
ScheduleTax(income) ==
    LET allowance == Max(0, 2 * 12570 - Max(0, income - 100000))
        taxable == Max(0, 2 * income - allowance)
        basic == Min(taxable, 2 * 37700)
        higher == Min(Max(taxable - 2 * 37700, 0), 2 * 87440)
        additional == Max(taxable - 2 * 37700 - 2 * 87440, 0)
        insurance ==
            IF income > 12570
            THEN 2 * 8 * (Min(income, 50270) - 12570) + 2 * 2 * Max(income - 50270, 0)
            ELSE 0
    IN  20 * basic + 40 * higher + 45 * additional + insurance

\* x pounds and t tenths
Pounds(x, t) == Fin(x * Scale + t * (Scale \div 10))

\* C5: calculateAnnualTax returns income tax plus National Insurance under
\* the stated schedule; annualTax(12570) = 0, annualTax(30000) = 4880.4 and
\* annualTax(150000) = 58713.6.
C5_TaxSchedule ==
    taxCall # Null =>
        LET income == taxCall[1].income.v \div Scale
            tax == taxCall[1].tax
        IN  /\ IsFin(tax)
            /\ tax.v = ScheduleTax(income) * (Scale \div 200)
            /\ income = 12570 => tax = Num(0)
            /\ income = 30000 => tax = Pounds(4880, 4)
            /\ income = 150000 => tax = Pounds(58713, 6)

\* the call on 150000, in the additional-rate band with the allowance gone
C5_Witness ==
    /\ taxCall # Null
    /\ taxCall[1].income = Num(150000)
    /\ taxCall[1].tax = Pounds(58713, 6)

\* C6: the tax on an income above 0 is at least 0, and the tax on a larger
\* income is never smaller, across the band edges and the taper range.
C6_TaxMonotone ==
    [][taxCall' # Null =>
          /\ Ge(taxCall'[1].tax, Num(0))
          /\ (taxCall # Null /\ Le(taxCall[1].income, taxCall'[1].income)) =>
                 Le(taxCall[1].tax, taxCall'[1].tax)]_vars

\* a call inside the taper range, where each pound loses half a pound of allowance
C6_Witness ==
    /\ taxCall # Null
    /\ taxCall[1].income = Num(100001)
    /\ Gt(taxCall[1].tax, Num(0))

(***************************************************************************)
(* Calculator and projection claims, under SpecCalc                        *)
(***************************************************************************)
Entry(id, name, amountText) ==
    [id |-> id, name |-> name, amount |-> parseFloat(amountText)]

\* ledgers the add handlers build: none; the two subscriptions and one annual
\* cost of a small budget; subscriptions above any modelled income; an annual
\* cost entered as Infinity
CalcLedgers ==
    { <<<<>>, <<>>>>,
      <<<<Entry("0", <<"G">>, "9.99"), Entry("1", <<"T", "V">>, "15")>>,
        <<Entry("1", <<"G">>, "600")>>>>,
      <<<<Entry("0", <<"G">>, "1000"), Entry("0", <<"G">>, "1000"),
          Entry("1", <<"T", "V">>, "30000")>>, <<>>>>,
      <<<<>>, <<Entry("0", <<"G">>, "Infinity")>>>> }

InitCalc ==
    \E ledgers \in CalcLedgers :
        /\ Loaded(FALSE, FALSE, "", "", "", "", 3, ledgers[1], ledgers[2], 1)
        /\ API_URL = ""

SpecCalc == InitCalc /\ [][InputStep]_vars

\* C7: a present result has grossMonthly = grossAnnual / 12 and netMonthly =
\* grossMonthly - monthlyTax, monthlyTax = annualTax(grossAnnual) / 12 with the
\* tax toggle on and 0 with it off, taxEnabled equal to the toggle, and
\* grossAnnual = rate * hoursPerWeek * 52 in hourly mode, the amount entered
\* in annual mode.
C7_ResultInvariant ==
    result # Null =>
        LET r == result[1]
        IN  /\ IsFin(r.grossAnnual) /\ IsFin(r.grossMonthly)
            /\ IsFin(r.monthlyTax) /\ IsFin(r.netMonthly)
            /\ r.grossMonthly.v * 12 = r.grossAnnual.v
            /\ r.netMonthly.v = r.grossMonthly.v - r.monthlyTax.v
            /\ r.taxEnabled = taxToggle
            /\ taxToggle => r.monthlyTax.v * 12 = calculateAnnualTax(r.grossAnnual).v
            /\ ~taxToggle => r.monthlyTax.v = 0 /\ r.netMonthly = r.grossMonthly
            /\ toggle => r.grossAnnual = parseFloat(annualSalary)
            /\ ~toggle =>
                   r.grossAnnual.v =
                       (parseFloat(hourlyRate).v \div Scale)
                           * (parseFloat(hoursPerWeek).v \div Scale) * 52 * Scale

\* hourly 20 x 35 x 52 = 36400 with the tax toggle on
C7_Witness ==
    /\ result # Null
    /\ ~toggle
    /\ taxToggle
    /\ result[1].grossAnnual = Num(36400)
    /\ result[1].monthlyTax.v > 0

\* the claim's words: the income input of one mode is insufficient
Missing(text) == IsNaN(parseFloat(text))
NotAbove0(text) == IsFin(parseFloat(text)) /\ parseFloat(text).v <= 0
Insufficient ==
    IF toggle
    THEN Missing(annualSalary) \/ NotAbove0(annualSalary)
    ELSE \/ Missing(hourlyRate) \/ NotAbove0(hourlyRate)
         \/ Missing(hoursPerWeek) \/ NotAbove0(hoursPerWeek)

\* C8: the result is absent exactly when the income input of the selected
\* mode is insufficient, whatever the tax toggle, the ledgers and the fields
\* of the other mode hold.
C8_AbsentIffInsufficient == (result = Null) <=> Insufficient

\* annual mode without a salary, while the hourly fields are filled, the tax
\* toggle is on and the ledgers hold entries
C8_Witness ==
    /\ result = Null
    /\ toggle
    /\ taxToggle
    /\ hourlyRate = "20"
    /\ hoursPerWeek = "35"
    /\ subscriptions # <<>>

\* C10: the series has horizon + 1 points with months 0..horizon in order and
\* balance startBalance + monthlyDelta * month, a horizon of 0 gives the one
\* point (0, startBalance), and the projected balance shown is the balance of
\* the last point.
C10_Series ==
    projectionResult # Null =>
        LET horizon == selectedProjectionMonths
            start == getCurrentBalance
            delta == getDisposableMonthly(result)
        IN  /\ Len(chartData) = horizon + 1
            /\ \A m \in 0..horizon :
                   /\ chartData[m + 1].month = m
                   /\ IsFin(delta) => chartData[m + 1].balance = Fin(start.v + delta.v * m)
                   /\ ~IsFin(delta) =>
                          chartData[m + 1].balance = Add(start, Mul(delta, Num(m)))
            /\ (horizon = 0 /\ IsFin(delta)) =>
                   chartData = <<[month |-> 0, balance |-> start]>>
            /\ projectionResult[1].projected = chartData[Len(chartData)].balance
            /\ projectionResult[1].months = horizon

\* a falling projection over the longest horizon from a balance of 1000
C10_Witness ==
    /\ projectionResult # Null
    /\ selectedProjectionMonths = MaxHorizon
    /\ currentBalance = "1000"
    /\ Len(chartData) = MaxHorizon + 1
    /\ Lt(chartData[MaxHorizon + 1].balance, chartData[1].balance)
    /\ chartData[1].balance = Num(1000)

(***************************************************************************)
(* The absent result on screen and in the PDF summary, under SpecPdf       *)
(***************************************************************************)
NextPdf ==
    \/ updateView
    \/ \E t \in {"", "20"} : hourlyRateInput(t)
    \/ \E t \in {"", "35"} : hoursPerWeekInput(t)
    \/ \E t \in {"", "30000"} : annualSalaryInput(t)
    \/ \E t \in {"", "1000"} : currentBalanceInput(t)
    \/ \E n \in {<<"G">>}, a \in {"15"} : addSubscription(n, a)
    \/ exportToPdf
    \/ pdfSaved

SpecPdf == Init /\ [][NextPdf]_vars

\* what a summary shows in place of a number when there is nothing to show
NoData == [k |-> "none", v |-> 0]

\* C9: with the result absent the series is empty and every projected-balance
\* summary, on screen and in the PDF export, is "no data", not a number.
C9_AbsentIsNoData ==
    [][/\ result' = Null => (chartData' = <<>> /\ projectionResult' = Null)
       /\ (exportToPdf /\ calculateLocally = Null) =>
              pdfExport'[1].projectedBalance = NoData]_vars

(***************************************************************************)
(* Recomputation claim, under SpecPage: the ledgers and the income, tax,   *)
(* balance and horizon handlers together, API_URL = ""                     *)
(***************************************************************************)
NextPage ==
    \/ \E a \in {"0", "12570"} : addSubscription(<<"T", "V">>, a)
    \/ \E a \in {"0", "600"} : addAnnualCost(<<"G">>, a)
    \/ \E id \in Ids : removeSubscription(id)
    \/ \E id \in Ids : removeAnnualCost(id)
    \/ Tick
    \/ updateView
    \/ taxToggleChange
    \/ \E t \in {"", "20"} : hourlyRateInput(t)
    \/ \E t \in {"", "30000"} : annualSalaryInput(t)
    \/ \E t \in {"", "1000"} : currentBalanceInput(t)
    \/ \E m \in {1, MaxHorizon} : handleProjectionClick(m)

SpecPage == InitLedger /\ [][NextPage]_vars

\* netMonthly - subscriptions total - annual-costs total / 12 for the income,
\* tax switch and ledgers of the current state; not clamped at 0
CurrentDisposable ==
    Sub(Sub(calculateLocally[1].netMonthly, reduceAmounts(subscriptions, Num(0))),
        Div(reduceAmounts(annualCosts, Num(0)), 12))

\* C11: with API_URL = "", in every state between two actions the display is
\* the one of the current inputs: when they give a result, the disposable
\* income shown is netMonthly - subscriptions total - annual-costs total / 12
\* of the current income, tax switch and ledgers, the projected balance and
\* the charted series are those of the current balance, that disposable and
\* the current horizon (point i is balance + disposable * i, for i from 0 to
\* the horizon); when they give none, the empty message and an empty series
\* are shown.
C11_DisplayIsCurrent ==
    API_URL = "" =>
        IF calculateLocally = Null
        THEN resultContainer = Null /\ projectionResult = Null /\ chartData = <<>>
        ELSE With2(CurrentDisposable, getCurrentBalance, LAMBDA disposable, balance :
                 /\ resultContainer # Null
                 /\ resultContainer[1].netMonthly = calculateLocally[1].netMonthly
                 /\ resultContainer[1].disposable = disposable
                 /\ projectionResult # Null
                 /\ projectionResult[1].months = selectedProjectionMonths
                 /\ projectionResult[1].projected =
                        Add(balance, Mul(disposable, Num(selectedProjectionMonths)))
                 /\ Len(chartData) = selectedProjectionMonths + 1
                 /\ \A i \in 0..selectedProjectionMonths :
                        chartData[i + 1] =
                            [month |-> i,
                             balance |-> Add(balance, Mul(disposable, Num(i)))])

\* after adds to both ledgers, a tax edit, a balance edit and a horizon
\* change: a result is shown whose disposable income is negative
C11_Witness ==
    /\ API_URL = ""
    /\ subscriptions # <<>>
    /\ annualCosts # <<>>
    /\ ~taxToggle
    /\ currentBalance = ""
    /\ selectedProjectionMonths = 1
    /\ resultContainer # Null
    /\ Lt(resultContainer[1].disposable, Num(0))
    /\ Len(chartData) = 2

(***************************************************************************)
(* Remote path claim, under SpecRemote: the page configured with a backend *)
(* URL, its income and tax handlers, and the fetches settling in any order *)
(***************************************************************************)
InitRemote ==
    \E tg \in BOOLEAN :
        /\ Loaded(tg, TRUE, "", "35", "", "1000", 3, <<>>, <<>>, 0)
        /\ API_URL = "https://backend.example"

NextRemote ==
    \/ updateView
    \/ taxToggleChange
    \/ \E t \in {"", "20"} : hourlyRateInput(t)
    \/ \E t \in {"", "30000", "150000"} : annualSalaryInput(t)
    \/ \E i \in 1..MaxInFlight, ok \in BOOLEAN : fetchSettled(i, ok)

SpecRemote == InitRemote /\ [][NextRemote]_vars

\* C12: with a backend URL configured, once no call of calculateMonthlyIncome
\* is awaiting its response any more, the result rendered, the summary shown
\* and the projection are those of the current (the latest) income and tax
\* input, never those of an earlier input whose response settled late.
C12_LatestInputDisplayed ==
    (API_URL # "" /\ pending = <<>>) =>
        /\ result = calculateLocally
        /\ resultContainer = renderResult(calculateLocally)
        /\ projectionResult = renderProjection(calculateLocally)[1]
        /\ chartData = renderProjection(calculateLocally)[2]
====
